---- MODULE Spec2Model ----
(***************************************************************************)
(* The concurrent terminal-spinner subsystem of src/spinner.py:            *)
(* SpinnerDisplay, SpinnerController, Spinner and SpinnerPool, with the    *)
(* worker threads of the pool's ThreadPoolExecutor, the Controller's       *)
(* render thread and the threads that call the Pool.                       *)
(*                                                                         *)
(* Every block of code that runs under one lock is one atomic step; the    *)
(* code never takes a second lock inside such a block.  Code between two   *)
(* locked blocks is attached to the step that follows it when it touches   *)
(* nothing another thread can see.                                         *)
(*                                                                         *)
(* A Spinner is created by the thread that registers it and is visible to  *)
(* no other thread before Display.register returns, so a Spinner, its      *)
(* runner closure and its Future are all named by the Display handle the   *)
(* Spinner was given.  The animation glyph (FRAMES[_idx]) and the ANSI     *)
(* colour codes of a line are left out of the line's text: a line is its   *)
(* label, whether it is a running or a final line, and its elapsed string. *)
(***************************************************************************)
EXTENDS Integers, Sequences, FiniteSets, TLC

VARIABLES
    display,     \* SpinnerDisplay: _order, _lines, _last_line_count, _id_iter, _active_count
    stdout,      \* the last buffer _render_locked wrote to sys.stdout
    controller,  \* SpinnerController: _spinners, _wake, _thread
    render,      \* the render thread's position in SpinnerController._run
    spinner,     \* handle -> Spinner: text, _stop, _display_id, _elapsed_supplier, _start_time
    job,         \* handle -> the runner closure of one submit and its Future
    pool,        \* SpinnerPool: _jobs, max_workers, and its executor
    caller,      \* thread -> the Pool method it is in, with that method's locals
    scope,       \* thread -> the Spinner.run_jobs call it is in, with its locals
    now          \* time.time(), in whole seconds

vars == <<display, stdout, controller, render, spinner, job, pool, caller, scope, now>>

----------------------------------------------------------------------------
(* Bounds of the model. *)

\* Spinners registered with the Display over a whole behaviour.
MaxJobs == 2
\* max_workers is drawn from 1..MaxWorkers.
MaxWorkers == 2
\* The clock stops advancing at MaxTime.
MaxTime == 1

\* As many labels as there can be jobs.
LabelNames == <<"A", "B", "C", "D">>
Labels == {LabelNames[i] : i \in 1..MaxJobs}
\* The thread that owns the Pool, and a second thread that is handed it.
Main == "main"
Callers == {Main, "other"}

\* Python's None where a handle or an instant is expected.
None == -1

Max(a, b) == IF a >= b THEN a ELSE b
Range(s) == {s[i] : i \in DOMAIN s}
SeqWithout(s, x) == SelectSeq(s, LAMBDA y : y # x)

----------------------------------------------------------------------------
(* Job callables and their outcomes. *)

Returns(v) == [kind |-> "return", value |-> v, exc |-> "", message |-> ""]
Raises(t, m) == [kind |-> "raise", value |-> "", exc |-> t, message |-> m]

\* Classes that derive from Exception; SystemExit derives from BaseException only.
ExceptionClasses == {"RuntimeError", "ValueError", "KeyError"}

Fns == {Returns("42"), Raises("RuntimeError", "boom"), Raises("SystemExit", "1")}

----------------------------------------------------------------------------
(* Spinner: formatting. *)

Pad2(n) == <<n \div 10, n % 10>>

\* A format that never shows hours.
FormatElapsedNoHours(seconds) ==
    LET total_seconds == Max(0, seconds)
    IN  <<Pad2(total_seconds \div 60), Pad2(total_seconds % 60)>>

\* Spinner._format_elapsed, for a whole number of seconds: the fields of the
\* string, each a pair of digits.
FormatElapsed(seconds) ==
    LET total_seconds == Max(0, seconds)
        hours == total_seconds \div 3600
        remainder == total_seconds % 3600
        minutes == remainder \div 60
        secs == remainder % 60
    IN  IF hours # 0
        THEN <<Pad2(hours), Pad2(minutes), Pad2(secs)>>
        ELSE <<Pad2(minutes), Pad2(secs)>>

CurrentElapsed(s, t) ==
    IF s.elapsed_supplier # None THEN Max(0, t - s.elapsed_supplier)
    ELSE IF s.start_time = None THEN 0
    ELSE t - s.start_time

FormatRunningLine(text, elapsed_str) ==
    [text |-> text, icon |-> "frame", elapsed |-> elapsed_str]

FormatFinalLine(text, success, elapsed_str) ==
    [text |-> text, icon |-> IF success THEN "ok" ELSE "fail", elapsed |-> elapsed_str]

----------------------------------------------------------------------------
(* SpinnerDisplay.  Each operator is the body of one method, run under      *)
(* Display's lock; it yields the Display's new fields and the new stdout.   *)

\* A redraw that does not record the number of lines it wrote.
RenderLockedNoCount(d, out) ==
    LET lines == [i \in 1..Len(d.order) |-> d.lines[d.order[i]]]
        prev == d.last_line_count
    IN  [display |-> d,
         stdout |-> [up |-> prev, lines |-> lines, flush |-> 1 - out.flush]]

RenderLocked(d, out) ==
    LET lines == [i \in 1..Len(d.order) |-> d.lines[d.order[i]]]
        prev == d.last_line_count
    IN  [display |-> [d EXCEPT !.last_line_count = Len(lines)],
         stdout |-> [up |-> prev, lines |-> lines, flush |-> 1 - out.flush]]

\* A register that puts the new handle on top of the block.
RegisterOnTop(d, out, spinner_id, initial_line) ==
    RenderLocked([d EXCEPT !.order = <<spinner_id>> \o @,
                           !.lines = (spinner_id :> initial_line) @@ @,
                           !.active_count = @ + 1], out)

\* SpinnerDisplay.register, lines 53-57: the block under the lock.
RegisterLocked(d, out, spinner_id, initial_line) ==
    RenderLocked([d EXCEPT !.order = Append(@, spinner_id),
                           !.lines = (spinner_id :> initial_line) @@ @,
                           !.active_count = @ + 1], out)

\* SpinnerDisplay.register as one step: next(_id_iter), then the locked block.
Register(d, out, initial_line) ==
    RegisterLocked([d EXCEPT !.id_iter = @ + 1], out, d.id_iter, initial_line)

Update(d, out, spinner_id, line) ==
    IF spinner_id \notin DOMAIN d.lines
    THEN [display |-> d, stdout |-> out]
    ELSE RenderLocked([d EXCEPT !.lines[spinner_id] = line], out)

\* A release that forgets the lines of the last spinner and keeps the order list.
ReleaseLeavesOrder(d, spinner_id) ==
    IF spinner_id \notin DOMAIN d.lines THEN d
    ELSE LET count == Max(0, d.active_count - 1)
         IN  IF count = 0
             THEN [d EXCEPT !.active_count = 0, !.lines = <<>>, !.last_line_count = 0]
             ELSE [d EXCEPT !.active_count = count]

\* A release that keeps the last-written line count of the batch that ended.
ReleaseKeepsCount(d, spinner_id) ==
    IF spinner_id \notin DOMAIN d.lines THEN d
    ELSE LET count == Max(0, d.active_count - 1)
         IN  IF count = 0
             THEN [d EXCEPT !.active_count = 0, !.order = <<>>, !.lines = <<>>]
             ELSE [d EXCEPT !.active_count = count]

\* SpinnerDisplay.release.
Release(d, spinner_id) ==
    IF spinner_id \notin DOMAIN d.lines THEN d
    ELSE LET count == Max(0, d.active_count - 1)
         IN  IF count = 0
             THEN [d EXCEPT !.active_count = 0, !.order = <<>>, !.lines = <<>>,
                            !.last_line_count = 0]
             ELSE [d EXCEPT !.active_count = count]

----------------------------------------------------------------------------
(* SpinnerController. *)

\* An _ensure_thread that starts a thread whether or not one is alive.
EnsureThreadAlways(c) == [c EXCEPT !.thread = TRUE, !.started = @ + 1]

\* SpinnerController._ensure_thread: thread tells that a render thread is
\* alive (it never returns from _run); started counts the threads started.
EnsureThread(c) ==
    IF ~c.thread THEN [c EXCEPT !.thread = TRUE, !.started = @ + 1] ELSE c

\* An add that does not set the wake signal.
AddNoWake(c, sp) ==
    EnsureThread([c EXCEPT !.spinners = IF sp \in Range(@) THEN @ ELSE Append(@, sp)])

\* SpinnerController.add.
Add(c, sp) ==
    [EnsureThread([c EXCEPT !.spinners = IF sp \in Range(@) THEN @ ELSE Append(@, sp)])
        EXCEPT !.wake = TRUE]

\* remove that leaves the spinner in the active set.
RemoveForgets(c, sp) == c

\* SpinnerController.remove.
Remove(c, sp) ==
    LET rest == SeqWithout(c.spinners, sp)
    IN  [c EXCEPT !.spinners = rest, !.wake = IF rest = <<>> THEN TRUE ELSE @]

----------------------------------------------------------------------------
(* Spinner: the steps of start, _render_tick and stop. *)

NoLine == [text |-> "", icon |-> "", elapsed |-> <<>>]

\* Spinner.__init__ as SpinnerPool.submit calls it, with an elapsed supplier
\* that reads time.time() - start_time.
NewSpinner(text, start_time) ==
    [text |-> text, stop |-> FALSE, display_id |-> None,
     elapsed_supplier |-> start_time, start_time |-> None]

\* Spinner.start up to Display.register: the initial line.
StartLine(s, t) ==
    LET s1 == IF s.elapsed_supplier = None THEN [s EXCEPT !.start_time = t] ELSE s
    IN  FormatRunningLine(s1.text, FormatElapsed(CurrentElapsed(s1, t)))

\* Spinner._render_tick up to Display.update: the handle and line it will
\* push, or no update at all (id = None).
RenderTick(s, t) ==
    IF s.display_id = None \/ s.stop
    THEN [id |-> None, line |-> NoLine]
    ELSE [id |-> s.display_id,
          line |-> FormatRunningLine(s.text, FormatElapsed(CurrentElapsed(s, t)))]

\* Spinner.stop: the final line it pushes.
FinalLine(s, success, elapsed, t) ==
    LET e == IF elapsed = None THEN CurrentElapsed(s, t) ELSE elapsed
    IN  FormatFinalLine(s.text, success, FormatElapsed(e))

----------------------------------------------------------------------------
(* SpinnerPool: its label -> future map, an insertion-ordered dict. *)

JobLabels(jobs) == {jobs[i].label : i \in DOMAIN jobs}

\* A lookup that pays no attention to the label.
JobsGetAny(jobs, label) ==
    IF jobs # <<>> THEN jobs[1].future ELSE None

\* dict.get: the future stored under label, or None.
JobsGet(jobs, label) ==
    IF label \in JobLabels(jobs)
    THEN jobs[CHOOSE i \in DOMAIN jobs : jobs[i].label = label].future
    ELSE None

\* dict.__setitem__: a key that is present keeps its place.
JobsSet(jobs, label, future) ==
    IF label \in JobLabels(jobs)
    THEN [i \in DOMAIN jobs |->
            IF jobs[i].label = label THEN [jobs[i] EXCEPT !.future = future] ELSE jobs[i]]
    ELSE Append(jobs, [label |-> label, future |-> future])

\* submit without its label check.
SubmitCheckSkipped(jobs, label) == FALSE

\* SpinnerPool.submit, its first locked block: TRUE when it raises ValueError.
SubmitCheck(jobs, label) == label \in JobLabels(jobs)

\* A runner that records success whatever fn does.
RunnerBodySwallows(fn) ==
    [success |-> TRUE,
     result_value |-> IF fn.kind = "return" THEN <<fn.value>> ELSE <<>>,
     error_info |-> <<>>, exc |-> ""]

\* The runner's try/except around fn: what it records, and the failure that
\* leaves the runner when fn raised something that is no Exception.
RunnerBody(fn) ==
    IF fn.kind = "return"
    THEN [success |-> TRUE, result_value |-> <<fn.value>>, error_info |-> <<>>, exc |-> ""]
    ELSE IF fn.exc \in ExceptionClasses
    THEN [success |-> FALSE, result_value |-> <<>>,
          error_info |-> <<[type |-> fn.exc, message |-> fn.message]>>, exc |-> ""]
    ELSE [success |-> FALSE, result_value |-> <<>>, error_info |-> <<>>, exc |-> fn.exc]

\* A runner that lets every failure of fn out into its Future.
RunnerResultLeaks(j) ==
    IF j.exc # "" \/ j.error_info # <<>>
    THEN [done |-> TRUE, result |-> <<>>,
          exception |-> IF j.exc # "" THEN j.exc ELSE j.error_info[1].type]
    ELSE [done |-> TRUE,
          result |-> <<[ok |-> j.success, result |-> j.result_value, error |-> j.error_info]>>,
          exception |-> ""]

\* What the runner leaves in its Future: the JobResult it returns, or the
\* failure that escaped it.
RunnerResult(j) ==
    IF j.exc # ""
    THEN [done |-> TRUE, result |-> <<>>, exception |-> j.exc]
    ELSE [done |-> TRUE,
          result |-> <<[ok |-> j.success, result |-> j.result_value, error |-> j.error_info]>>,
          exception |-> ""]

NoFn == [kind |-> "", value |-> "", exc |-> "", message |-> ""]
PendingFuture == [done |-> FALSE, result |-> <<>>, exception |-> ""]

\* The runner closure of one submit, not yet handed to the executor.  late
\* records that the submit was called after shutdown had been called.
NewJob(label, fn, late) ==
    [label |-> label, fn |-> fn, st |-> "new", success |-> FALSE, result_value |-> <<>>,
     error_info |-> <<>>, exc |-> "", elapsed |-> None, future |-> PendingFuture,
     late |-> late]

\* An executor that still takes work after shutdown.
ExecutorAccepts(p) == FALSE

\* executor.submit raises RuntimeError once executor.shutdown has been called.
ExecutorRejects(p) == p.shutdown

\* Work items a worker thread of the executor is running.
Busy == {h \in DOMAIN job :
            job[h].st \in {"running", "finally", "stop_update", "stop_release", "return"}}

----------------------------------------------------------------------------
(* Threads that call the Pool. *)

NoRet == [op |-> "", label |-> "", kind |-> "", value |-> <<>>, late |-> FALSE]

\* A thread that is in no call: the locals of every method are unset.  line,
\* success and elapsed are the arguments of Display.register and Spinner.stop;
\* late records that the call came after a shutdown (submit) or after an
\* earlier stop of the same spinner (stop).
Idle(ret) ==
    [pc |-> "idle", label |-> "", fn |-> NoFn, start_time |-> None, h |-> None,
     items |-> <<>>, results |-> <<>>, late |-> FALSE, line |-> NoLine,
     success |-> FALSE, elapsed |-> None, ret |-> ret]

Returned(c, op, value) ==
    Idle([op |-> op, label |-> caller[c].label, kind |-> "return", value |-> value,
          late |-> caller[c].late])

Raised(c, op, exc) ==
    Idle([op |-> op, label |-> caller[c].label, kind |-> "raise", value |-> <<exc>>,
          late |-> caller[c].late])

\* No run_jobs call in progress.
NoScope == [phase |-> "none", jobs |-> <<>>, outcome |-> NoRet]

----------------------------------------------------------------------------
(* The three locks: SpinnerDisplay._lock, SpinnerController._lock and       *)
(* SpinnerPool._lock.                                                       *)

Locks == {"display", "controller", "pool"}

\* A render loop that keeps the Controller's lock while it ticks.
HoldsWhileTicking(pc) == IF pc \in {"tick", "update"} THEN {"controller"} ELSE {}

\* A render loop that keeps the Controller's lock while it waits for the
\* wake signal.
HoldsWhileWaiting(pc) == IF pc = "wait" THEN {"controller"} ELSE {}

\* The locks a thread holds while it stands at position pc, between two of
\* its steps.  Every `with self._lock` block of the source is entered and
\* left within one step: none of them contains another block, a call that
\* takes a lock, future.result(), _wake.wait(), shutdown() or sleep().
Holds(pc) == {}

\* threading.Lock: a thread enters a `with` block of lock l only while no
\* thread holds l.
LockFree(l) ==
    /\ l \notin Holds(render.pc)
    /\ \A c \in DOMAIN caller : l \notin Holds(caller[c].pc)
    /\ \A h \in DOMAIN job : l \notin Holds(job[h].st)

----------------------------------------------------------------------------
Init ==
    /\ display = [order |-> <<>>, lines |-> <<>>, last_line_count |-> 0,
                  id_iter |-> 0, active_count |-> 0]
    /\ stdout = [up |-> 0, lines |-> <<>>, flush |-> 0]
    /\ controller = [spinners |-> <<>>, wake |-> FALSE, thread |-> FALSE, started |-> 0]
    /\ render = [pc |-> "snapshot", spinners |-> <<>>, id |-> None, line |-> NoLine]
    /\ spinner = <<>>
    /\ job = <<>>
    /\ \E w \in 1..MaxWorkers :
         pool = [jobs |-> <<>>, shutdown |-> FALSE, queue |-> <<>>, max_workers |-> w]
    /\ caller = [c \in Callers |-> Idle(NoRet)]
    /\ scope = [c \in Callers |-> NoScope]
    /\ now = 0

----------------------------------------------------------------------------
(* SpinnerPool.submit, by thread c. *)

\* Submits that have passed the label check and not yet registered a spinner.
Starting == {c \in Callers : caller[c].pc = "submit_start"}

\* Lines 311-314: the label check under the Pool's lock, then start_time.
Submit(c, label, fn) ==
    /\ caller[c].pc = "idle"
    /\ LockFree("pool")
    /\ SubmitCheck(pool.jobs, label)
         \/ display.id_iter + Cardinality(Starting) < MaxJobs
    /\ caller' = [caller EXCEPT ![c] =
         IF SubmitCheck(pool.jobs, label)
         THEN [Raised(c, "submit", "ValueError") EXCEPT !.ret.label = label,
                                                        !.ret.late = pool.shutdown]
         ELSE [Idle(NoRet) EXCEPT !.pc = "submit_start", !.label = label, !.fn = fn,
                                  !.start_time = now, !.late = pool.shutdown]]
    /\ UNCHANGED <<display, stdout, controller, render, spinner, job, pool, now>>

\* Lines 320-327 and Spinner.start up to line 214: the new Spinner registers
\* its initial line with the Display.  The handle is drawn (line 52) in the
\* step of the locked block; the Display's own clients, further down, draw
\* it in a step of its own.
SubmitStart(c) ==
    /\ caller[c].pc = "submit_start"
    /\ LockFree("display")
    /\ LET h == display.id_iter
           s == NewSpinner(caller[c].label, caller[c].start_time)
           r == Register(display, stdout, StartLine(s, now))
       IN  /\ display' = r.display
           /\ stdout' = r.stdout
           /\ spinner' = (h :> [s EXCEPT !.display_id = h]) @@ spinner
           /\ job' = (h :> NewJob(caller[c].label, caller[c].fn, caller[c].late)) @@ job
           /\ caller' = [caller EXCEPT ![c].pc = "submit_add", ![c].h = h]
    /\ UNCHANGED <<scope, controller, render, pool, now>>

\* Spinner.start, line 215: Controller.add.
SubmitAdd(c) ==
    /\ caller[c].pc = "submit_add"
    /\ LockFree("controller")
    /\ controller' = Add(controller, caller[c].h)
    /\ caller' = [caller EXCEPT ![c].pc = "submit_exec"]
    /\ UNCHANGED <<scope, display, stdout, render, spinner, job, pool, now>>

\* Line 349: executor.submit(runner), which raises RuntimeError once the
\* executor has been shut down.
SubmitExec(c) ==
    /\ caller[c].pc = "submit_exec"
    /\ IF ExecutorRejects(pool)
       THEN /\ caller' = [caller EXCEPT ![c] = Raised(c, "submit", "RuntimeError")]
            /\ UNCHANGED <<pool, job>>
       ELSE /\ pool' = [pool EXCEPT !.queue = Append(@, caller[c].h)]
            /\ job' = [job EXCEPT ![caller[c].h].st = "queued"]
            /\ caller' = [caller EXCEPT ![c].pc = "submit_store"]
    /\ UNCHANGED <<scope, display, stdout, controller, render, spinner, now>>

\* Lines 350-352: the future is stored under the label, under the Pool's lock.
SubmitStore(c) ==
    /\ caller[c].pc = "submit_store"
    /\ LockFree("pool")
    /\ pool' = [pool EXCEPT !.jobs = JobsSet(@, caller[c].label, caller[c].h)]
    /\ caller' = [caller EXCEPT ![c] = Returned(c, "submit", <<caller[c].h>>)]
    /\ UNCHANGED <<scope, display, stdout, controller, render, spinner, job, now>>

----------------------------------------------------------------------------
(* A worker thread of the executor running the runner of job h. *)

\* The executor hands the oldest queued work item to a free worker, which
\* calls the runner; fn starts to run.
RunnerStart(h) ==
    /\ pool.queue # <<>> /\ Head(pool.queue) = h
    /\ Cardinality(Busy) < pool.max_workers
    /\ pool' = [pool EXCEPT !.queue = Tail(@)]
    /\ job' = [job EXCEPT ![h].st = "running"]
    /\ UNCHANGED <<scope, display, stdout, controller, render, spinner, caller, now>>

\* Lines 330-340: fn returns or raises.
RunnerCall(h) ==
    /\ job[h].st = "running"
    /\ LET b == RunnerBody(job[h].fn)
       IN  job' = [job EXCEPT ![h].st = "finally", ![h].success = b.success,
                              ![h].result_value = b.result_value,
                              ![h].error_info = b.error_info, ![h].exc = b.exc]
    /\ UNCHANGED <<scope, display, stdout, controller, render, spinner, pool, caller, now>>

\* Line 342 and Spinner.stop, lines 218-219: elapsed_supplier() is read, the
\* stop flag is set and the spinner leaves the Controller.
StopRemove(h) ==
    /\ job[h].st = "finally"
    /\ LockFree("controller")
    /\ job' = [job EXCEPT ![h].st = "stop_update",
                          ![h].elapsed = CurrentElapsed(spinner[h], now)]
    /\ spinner' = [spinner EXCEPT ![h].stop = TRUE]
    /\ controller' = Remove(controller, h)
    /\ UNCHANGED <<scope, display, stdout, render, pool, caller, now>>

\* Spinner.stop, lines 220-226: the final line is pushed to the Display.
StopUpdate(h) ==
    /\ job[h].st = "stop_update"
    /\ LockFree("display")
    /\ LET line == FinalLine(spinner[h], job[h].success, job[h].elapsed, now)
           r == IF spinner[h].display_id # None
                THEN Update(display, stdout, spinner[h].display_id, line)
                ELSE [display |-> display, stdout |-> stdout]
       IN  /\ display' = r.display
           /\ stdout' = r.stdout
    /\ job' = [job EXCEPT ![h].st = "stop_release", ![h].elapsed = None]
    /\ UNCHANGED <<scope, controller, render, spinner, pool, caller, now>>

\* Spinner.stop, lines 227-230: the handle is released and forgotten.
StopRelease(h) ==
    /\ job[h].st = "stop_release"
    /\ LockFree("display")
    /\ display' = IF spinner[h].display_id # None
                  THEN Release(display, spinner[h].display_id) ELSE display
    /\ spinner' = [spinner EXCEPT ![h].display_id = None]
    /\ job' = [job EXCEPT ![h].st = "return"]
    /\ UNCHANGED <<scope, stdout, controller, render, pool, caller, now>>

\* Lines 343-347: the runner returns and the executor completes the Future.
RunnerReturn(h) ==
    /\ job[h].st = "return"
    /\ job' = [job EXCEPT ![h].st = "done", ![h].future = RunnerResult(job[h])]
    /\ UNCHANGED <<scope, display, stdout, controller, render, spinner, pool, caller, now>>

----------------------------------------------------------------------------
(* SpinnerController._run, the render thread. *)

\* A loop that takes its snapshot again when it finds the set empty.
RunSnapshotBusy ==
    /\ controller.thread /\ render.pc = "snapshot"
    /\ render' = [render EXCEPT !.spinners = controller.spinners,
                                !.pc = IF controller.spinners = <<>> THEN "snapshot" ELSE "tick"]
    /\ UNCHANGED <<scope, display, stdout, controller, spinner, job, pool, caller, now>>

\* Lines 125-127: the active set is copied under the Controller's lock.
RunSnapshot ==
    /\ controller.thread /\ render.pc = "snapshot"
    /\ LockFree("controller")
    /\ render' = [render EXCEPT !.spinners = controller.spinners,
                                !.pc = IF controller.spinners = <<>> THEN "wait" ELSE "tick"]
    /\ UNCHANGED <<scope, display, stdout, controller, spinner, job, pool, caller, now>>

\* Line 128: _wake.wait() returns once the flag is set.
RunWait ==
    /\ render.pc = "wait" /\ controller.wake
    /\ render' = [render EXCEPT !.pc = "clear"]
    /\ UNCHANGED <<scope, display, stdout, controller, spinner, job, pool, caller, now>>

\* Lines 129-130: _wake.clear(), and round the loop.
RunClear ==
    /\ render.pc = "clear"
    /\ controller' = [controller EXCEPT !.wake = FALSE]
    /\ render' = [render EXCEPT !.pc = "snapshot"]
    /\ UNCHANGED <<scope, display, stdout, spinner, job, pool, caller, now>>

\* Lines 131-132 and Spinner._render_tick, lines 199-205 up to the call of
\* Display.update: the next spinner of the snapshot is ticked.
RunTick ==
    /\ render.pc = "tick" /\ render.spinners # <<>>
    /\ LET t == RenderTick(spinner[Head(render.spinners)], now)
       IN  render' = IF t.id = None
                     THEN [render EXCEPT !.spinners = Tail(@)]
                     ELSE [render EXCEPT !.pc = "update", !.id = t.id, !.line = t.line]
    /\ UNCHANGED <<scope, display, stdout, controller, spinner, job, pool, caller, now>>

\* Line 205: Display.update with the running line, under the Display's lock.
RunUpdate ==
    /\ render.pc = "update"
    /\ LockFree("display")
    /\ LET r == Update(display, stdout, render.id, render.line)
       IN  /\ display' = r.display
           /\ stdout' = r.stdout
    /\ render' = [render EXCEPT !.pc = "tick", !.spinners = Tail(@),
                                !.id = None, !.line = NoLine]
    /\ UNCHANGED <<scope, controller, spinner, job, pool, caller, now>>

\* Line 133: time.sleep(interval), then the next snapshot.
RunSleep ==
    /\ render.pc = "tick" /\ render.spinners = <<>>
    /\ render' = [render EXCEPT !.pc = "snapshot"]
    /\ UNCHANGED <<scope, display, stdout, controller, spinner, job, pool, caller, now>>

----------------------------------------------------------------------------
(* SpinnerPool.wait_all, result_for and shutdown, by thread c. *)

\* A result() that does not block.
FutureDoneUnchecked(f) == TRUE

\* future.result() blocks until the Future is complete.
FutureDone(f) == f.done

\* future.result(): the value or failure a completed Future hands over.
FutureOutcome(c, op, f, value) ==
    IF f.exception # "" THEN Raised(c, op, f.exception) ELSE Returned(c, op, value)

\* Lines 368-370: the items of the map are copied under the Pool's lock.
WaitAll(c) ==
    /\ caller[c].pc = "idle"
    /\ LockFree("pool")
    /\ caller' = [caller EXCEPT ![c] =
         IF pool.jobs = <<>>
         THEN Returned(c, "wait_all", <<>>)
         ELSE [Idle(NoRet) EXCEPT !.pc = "wait_all", !.items = pool.jobs]]
    /\ UNCHANGED <<display, stdout, controller, render, spinner, job, pool, now>>

\* Lines 371-373: future.result() of the next item, once that future is
\* complete; after the last one the results are returned.
WaitAllNext(c) ==
    /\ caller[c].pc = "wait_all"
    /\ LET item == Head(caller[c].items)
           f == job[item.future].future
           results == Append(caller[c].results, <<item.label, f.result>>)
       IN  /\ FutureDone(f)
           /\ caller' = [caller EXCEPT ![c] =
                IF f.exception # "" THEN Raised(c, "wait_all", f.exception)
                ELSE IF Len(caller[c].items) = 1 THEN Returned(c, "wait_all", results)
                ELSE [@ EXCEPT !.items = Tail(@), !.results = results]]
    /\ UNCHANGED <<scope, display, stdout, controller, render, spinner, job, pool, now>>

\* Lines 377-380: the lookup under the Pool's lock; KeyError when absent.
ResultFor(c, label) ==
    /\ caller[c].pc = "idle"
    /\ LockFree("pool")
    /\ caller' = [caller EXCEPT ![c] =
         IF JobsGet(pool.jobs, label) = None
         THEN [Raised(c, "result_for", "KeyError") EXCEPT !.ret.label = label]
         ELSE [Idle(NoRet) EXCEPT !.pc = "result_for", !.label = label,
                                  !.h = JobsGet(pool.jobs, label)]]
    /\ UNCHANGED <<display, stdout, controller, render, spinner, job, pool, now>>

\* Line 381: future.result(), once the future is complete.
ResultForDone(c) ==
    /\ caller[c].pc = "result_for"
    /\ FutureDone(job[caller[c].h].future)
    /\ caller' = [caller EXCEPT ![c] =
         FutureOutcome(c, "result_for", job[caller[c].h].future,
                       job[caller[c].h].future.result)]
    /\ UNCHANGED <<scope, display, stdout, controller, render, spinner, job, pool, now>>

\* Every work item the executor accepted has been run to its end.
Joined == \A h \in DOMAIN job : job[h].st \in {"new", "done"}

\* Line 356: executor.shutdown(wait): no new work is accepted from here on.
Shutdown(c, wait) ==
    /\ caller[c].pc = "idle"
    /\ pool' = [pool EXCEPT !.shutdown = TRUE]
    /\ caller' = [caller EXCEPT ![c] =
         IF wait THEN [Idle(NoRet) EXCEPT !.pc = "shutdown_join"]
         ELSE Returned(c, "shutdown", <<>>)]
    /\ UNCHANGED <<display, stdout, controller, render, spinner, job, now>>

\* executor.shutdown(wait=True) joins the worker threads, which first run
\* every work item still queued.
ShutdownJoin(c) ==
    /\ caller[c].pc = "shutdown_join"
    /\ Joined
    /\ caller' = [caller EXCEPT ![c] = Returned(c, "shutdown", <<>>)]
    /\ UNCHANGED <<scope, display, stdout, controller, render, spinner, job, pool, now>>

----------------------------------------------------------------------------
\* time.time() advances.
ClockTick ==
    /\ now < MaxTime
    /\ now' = now + 1
    /\ UNCHANGED <<scope, display, stdout, controller, render, spinner, job, pool, caller>>

----------------------------------------------------------------------------
(* Spinner.run_jobs, by thread c. *)

\* SpinnerPool.__init__.
NewPool(max_workers) ==
    [jobs |-> <<>>, shutdown |-> FALSE, queue |-> <<>>, max_workers |-> max_workers]

\* An __exit__ that calls shutdown(wait=False).
ExitNoWait == FALSE

\* The wait argument of the shutdown() that __exit__ calls: the default.
ExitWait == TRUE

\* A job specification: a dict with the keys it holds, or something else.
JobSpec(label, fn) == [dict |-> TRUE, keys |-> {"label", "fn"}, label |-> label, fn |-> fn]
JobSpecs ==
    {JobSpec(l, f) : l \in Labels, f \in Fns}
        \cup {[JobSpec("A", Returns("42")) EXCEPT !.dict = FALSE],
              [JobSpec("", Returns("42")) EXCEPT !.keys = {"fn"}],
              [JobSpec("A", NoFn) EXCEPT !.keys = {"label"}]}

JobLists(n) == UNION {[1..k -> JobSpecs] : k \in 0..n}

\* A normalisation that drops what it cannot use and reports nothing.
NormalizeUnchecked(jobs) ==
    LET good == SelectSeq(jobs, LAMBDA j : j.dict /\ {"label", "fn"} \subseteq j.keys)
    IN  [error |-> "", field |-> "",
         normalized |-> [i \in DOMAIN good |-> [label |-> good[i].label, fn |-> good[i].fn]]]

\* Lines 253-265: the first specification that fails validation decides the
\* error; otherwise the (label, fn) pairs in order.
Normalize(jobs) ==
    LET Bad(i) == ~jobs[i].dict \/ "label" \notin jobs[i].keys \/ "fn" \notin jobs[i].keys
        bad == {i \in DOMAIN jobs : Bad(i)}
        first == CHOOSE i \in bad : \A k \in bad : i <= k
    IN  IF bad = {}
        THEN [error |-> "", field |-> "",
              normalized |-> [i \in DOMAIN jobs |-> [label |-> jobs[i].label, fn |-> jobs[i].fn]]]
        ELSE [error |-> IF ~jobs[first].dict THEN "TypeError" ELSE "ValueError",
              field |-> IF ~jobs[first].dict THEN "dict"
                        ELSE IF "label" \notin jobs[first].keys THEN "label" ELSE "fn",
              normalized |-> <<>>]

\* A run_jobs that opens a Pool for no job at all.
EmptyBatchIgnored(normalized) == FALSE

\* Line 267: nothing to run.
EmptyBatch(normalized) == normalized = <<>>

\* Lines 253-274: validation, the empty batch, and the Pool the with
\* statement opens.
RunJobs(c, jobs, max_workers) ==
    /\ scope[c].phase = "none" /\ caller[c].pc = "idle"
    /\ Len(jobs) <= MaxJobs - display.id_iter
    /\ LET v == Normalize(jobs)
       IN  IF v.error # ""
           THEN /\ caller' = [caller EXCEPT ![c] =
                     Idle([NoRet EXCEPT !.op = "run_jobs", !.kind = "raise",
                                        !.value = <<v.error, v.field>>])]
                /\ UNCHANGED <<scope, pool>>
           ELSE IF EmptyBatch(v.normalized)
           THEN /\ caller' = [caller EXCEPT ![c] =
                     Idle([NoRet EXCEPT !.op = "run_jobs", !.kind = "return"])]
                /\ UNCHANGED <<scope, pool>>
           ELSE /\ pool' = NewPool(max_workers)
                /\ scope' = [scope EXCEPT ![c] =
                     [phase |-> "submit", jobs |-> v.normalized, outcome |-> NoRet]]
                /\ caller' = [caller EXCEPT ![c] = Idle(NoRet)]
    /\ UNCHANGED <<display, stdout, controller, render, spinner, job, now>>

\* Lines 275-276: pool.submit of the next job, once the last submit returned.
RunJobsSubmit(c) ==
    /\ scope[c].phase = "submit" /\ scope[c].jobs # <<>>
    /\ caller[c].ret.kind # "raise"
    /\ Submit(c, Head(scope[c].jobs).label, Head(scope[c].jobs).fn)
    /\ scope' = [scope EXCEPT ![c].jobs = Tail(@)]

\* Line 277: pool.wait_all(), after the last submit returned.
RunJobsWaitAll(c) ==
    /\ scope[c].phase = "submit" /\ scope[c].jobs = <<>>
    /\ caller[c].ret.kind # "raise"
    /\ WaitAll(c)
    /\ scope' = [scope EXCEPT ![c].phase = "wait"]

\* Lines 300-301: __exit__ calls shutdown(), when wait_all has ended or a
\* submit has raised; the with statement keeps what it will return or raise.
RunJobsExit(c) ==
    /\ caller[c].pc = "idle"
    /\ \/ scope[c].phase = "wait"
       \/ scope[c].phase = "submit" /\ caller[c].ret.kind = "raise"
    /\ Shutdown(c, ExitWait)
    /\ scope' = [scope EXCEPT ![c].phase = "exit", ![c].jobs = <<>>,
                              ![c].outcome = caller[c].ret]

\* shutdown has returned: run_jobs returns wait_all's mapping, or the
\* failure goes on to its caller.
RunJobsReturn(c) ==
    /\ scope[c].phase = "exit" /\ caller[c].pc = "idle"
    /\ caller' = [caller EXCEPT ![c] = Idle([scope[c].outcome EXCEPT !.op = "run_jobs"])]
    /\ scope' = [scope EXCEPT ![c] = NoScope]
    /\ UNCHANGED <<display, stdout, controller, render, spinner, job, pool, now>>

----------------------------------------------------------------------------
(* SpinnerDisplay called directly, by thread c. *)

\* Every handle the Display can hand out.
Handles == 0..(MaxJobs - 1)

\* Lines a client passes to register and update.
DisplayLines ==
    {FormatRunningLine("A", FormatElapsed(0)), FormatFinalLine("A", TRUE, FormatElapsed(0))}

\* Line 52: next(_id_iter), before the lock is taken.
DisplayRegister(c, initial_line) ==
    /\ caller[c].pc = "idle"
    /\ display.id_iter < MaxJobs
    /\ display' = [display EXCEPT !.id_iter = @ + 1]
    /\ caller' = [caller EXCEPT ![c] =
         [Idle(NoRet) EXCEPT !.pc = "register", !.h = display.id_iter,
                             !.line = initial_line]]
    /\ UNCHANGED <<scope, stdout, controller, render, spinner, job, pool, now>>

\* Lines 53-58: the locked block of register, and the handle is returned.
DisplayRegisterLocked(c) ==
    /\ caller[c].pc = "register"
    /\ LockFree("display")
    /\ LET r == RegisterLocked(display, stdout, caller[c].h, caller[c].line)
       IN  /\ display' = r.display
           /\ stdout' = r.stdout
    /\ caller' = [caller EXCEPT ![c] = Returned(c, "register", <<caller[c].h>>)]
    /\ UNCHANGED <<scope, controller, render, spinner, job, pool, now>>

\* Lines 60-65: update, with any handle.
DisplayUpdate(c, spinner_id, line) ==
    /\ caller[c].pc = "idle"
    /\ LockFree("display")
    /\ LET r == Update(display, stdout, spinner_id, line)
       IN  /\ display' = r.display
           /\ stdout' = r.stdout
    /\ caller' = [caller EXCEPT ![c] = Returned(c, "update", <<spinner_id>>)]
    /\ UNCHANGED <<scope, controller, render, spinner, job, pool, now>>

\* Lines 67-75: release, with any handle.  late records that the handle
\* had no line, so that the call returned at line 70.
DisplayRelease(c, spinner_id) ==
    /\ caller[c].pc = "idle"
    /\ LockFree("display")
    /\ display' = Release(display, spinner_id)
    /\ caller' = [caller EXCEPT ![c] =
         [Returned(c, "release", <<spinner_id>>)
             EXCEPT !.ret.late = spinner_id \notin DOMAIN display.lines]]
    /\ UNCHANGED <<scope, stdout, controller, render, spinner, job, pool, now>>

----------------------------------------------------------------------------
(* A Spinner used on its own, as in the class's docstring: thread c creates *)
(* it without an elapsed supplier, starts it and stops it, any number of    *)
(* times.                                                                   *)

\* A stop that keeps the Display handle.
KeepHandle(s) == s

\* Spinner.stop, line 230: the Display handle is forgotten.
ForgetHandle(s) == [s EXCEPT !.display_id = None]

\* The elapsed argument of stop: whole seconds, or None.  The one negative
\* number is not the one that stands for None.
ElapsedArgs == {None, -2, 0, 59, 60, 3599, 3600, 3661}

\* Spinner.__init__ and Spinner.start, lines 208-214: the start instant is
\* taken and the initial line registered.
SpinnerStart(c, text) ==
    /\ caller[c].pc = "idle"
    /\ LockFree("display")
    /\ display.id_iter < MaxJobs
    /\ LET h == display.id_iter
           s == NewSpinner(text, None)
           r == Register(display, stdout, StartLine(s, now))
       IN  /\ display' = r.display
           /\ stdout' = r.stdout
           /\ spinner' = (h :> [s EXCEPT !.display_id = h, !.start_time = now]) @@ spinner
           /\ caller' = [caller EXCEPT ![c] = [Idle(NoRet) EXCEPT !.pc = "start_add", !.h = h]]
    /\ UNCHANGED <<scope, controller, render, job, pool, now>>

\* Spinner.start, line 215: Controller.add.
SpinnerStartAdd(c) ==
    /\ caller[c].pc = "start_add"
    /\ LockFree("controller")
    /\ controller' = Add(controller, caller[c].h)
    /\ caller' = [caller EXCEPT ![c] = Returned(c, "start", <<caller[c].h>>)]
    /\ UNCHANGED <<scope, display, stdout, render, spinner, job, pool, now>>

\* Spinner.stop, lines 218-219: the stop flag is set and the spinner leaves
\* the Controller.  late records that the flag was already set, that is,
\* that an earlier stop of this spinner has returned.
SpinnerStop(c, h, success, elapsed) ==
    /\ caller[c].pc = "idle"
    /\ LockFree("controller")
    /\ h \in DOMAIN spinner
    /\ spinner' = [spinner EXCEPT ![h].stop = TRUE]
    /\ controller' = Remove(controller, h)
    /\ caller' = [caller EXCEPT ![c] =
         [Idle(NoRet) EXCEPT !.pc = "stop_update", !.h = h, !.success = success,
                             !.elapsed = elapsed, !.late = spinner[h].stop]]
    /\ UNCHANGED <<scope, display, stdout, render, job, pool, now>>

\* Spinner.stop, lines 220-226: with a handle, the final line is pushed to
\* the Display; without one, stop returns.
SpinnerStopUpdate(c) ==
    /\ caller[c].pc = "stop_update"
    /\ LockFree("display")
    /\ LET s == spinner[caller[c].h]
           line == FinalLine(s, caller[c].success, caller[c].elapsed, now)
           r == Update(display, stdout, s.display_id, line)
       IN  IF s.display_id # None
           THEN /\ display' = r.display
                /\ stdout' = r.stdout
                /\ caller' = [caller EXCEPT ![c].pc = "stop_release"]
           ELSE /\ caller' = [caller EXCEPT ![c] = Returned(c, "stop", <<caller[c].h>>)]
                /\ UNCHANGED <<display, stdout>>
    /\ UNCHANGED <<scope, controller, render, spinner, job, pool, now>>

\* Spinner.stop, lines 227-230: the handle is released and forgotten.
SpinnerStopRelease(c) ==
    /\ caller[c].pc = "stop_release"
    /\ LockFree("display")
    /\ display' = Release(display, spinner[caller[c].h].display_id)
    /\ spinner' = [spinner EXCEPT ![caller[c].h] = ForgetHandle(@)]
    /\ caller' = [caller EXCEPT ![c] = Returned(c, "stop", <<caller[c].h>>)]
    /\ UNCHANGED <<scope, stdout, controller, render, job, pool, now>>

----------------------------------------------------------------------------
(* SpinnerController called directly, by thread c, with a Spinner that has  *)
(* been created.                                                            *)

\* Lines 106-110: add, one block under the Controller's lock.
ControllerAdd(c, sp) ==
    /\ caller[c].pc = "idle"
    /\ LockFree("controller")
    /\ sp \in DOMAIN spinner
    /\ controller' = Add(controller, sp)
    /\ UNCHANGED <<scope, display, stdout, render, spinner, job, pool, caller, now>>

\* Lines 112-116: remove, one block under the Controller's lock.
ControllerRemove(c, sp) ==
    /\ caller[c].pc = "idle"
    /\ LockFree("controller")
    /\ sp \in DOMAIN spinner
    /\ controller' = Remove(controller, sp)
    /\ UNCHANGED <<scope, display, stdout, render, spinner, job, pool, caller, now>>

----------------------------------------------------------------------------
(* A thread that holds a Pool calls its methods in any order. *)

CallSubmit(c) ==
    /\ scope[c].phase = "none"
    /\ \E label \in Labels, fn \in Fns : Submit(c, label, fn)
    /\ UNCHANGED scope

CallWaitAll(c) ==
    /\ scope[c].phase = "none"
    /\ WaitAll(c)
    /\ UNCHANGED scope

CallResultFor(c) ==
    /\ scope[c].phase = "none"
    /\ \E label \in Labels : ResultFor(c, label)
    /\ UNCHANGED scope

CallShutdown(c) ==
    /\ scope[c].phase = "none"
    /\ \E wait \in BOOLEAN : Shutdown(c, wait)
    /\ UNCHANGED scope

\* The steps inside submit, after its label check.
SubmitSteps(c) ==
    \/ SubmitStart(c)
    \/ SubmitAdd(c)
    \/ SubmitExec(c)
    \/ SubmitStore(c)

\* The worker threads of the executor.
Workers ==
    \E h \in DOMAIN job :
        \/ RunnerStart(h)
        \/ RunnerCall(h)
        \/ StopRemove(h)
        \/ StopUpdate(h)
        \/ StopRelease(h)
        \/ RunnerReturn(h)

\* The render thread.
Rendering ==
    \/ RunSnapshot
    \/ RunWait
    \/ RunClear
    \/ RunTick
    \/ RunUpdate
    \/ RunSleep

----------------------------------------------------------------------------
(* Specifications. *)

\* One thread uses the Pool through all of its methods while the workers
\* run the jobs.
Next ==
    \/ CallSubmit(Main)
    \/ CallWaitAll(Main)
    \/ CallResultFor(Main)
    \/ CallShutdown(Main)
    \/ SubmitSteps(Main)
    \/ WaitAllNext(Main)
    \/ ResultForDone(Main)
    \/ ShutdownJoin(Main)
    \/ Workers

Spec == Init /\ [][Next]_vars

\* The threads are scheduled fairly and every job body terminates.
SpecFair ==
    /\ Spec
    /\ WF_vars(Workers)
    /\ WF_vars(SubmitSteps(Main))
    /\ WF_vars(WaitAllNext(Main))
    /\ WF_vars(ResultForDone(Main))
    /\ WF_vars(ShutdownJoin(Main))

\* Two threads submit to the same Pool at once; one of them collects.
NextRace ==
    \/ \E c \in Callers : CallSubmit(c)
    \/ \E c \in Callers : SubmitSteps(c)
    \/ CallWaitAll(Main)
    \/ WaitAllNext(Main)
    \/ Workers

SpecRace == Init /\ [][NextRace]_vars

\* Jobs are submitted and run while the render thread animates their
\* spinners.
NextRender ==
    \/ CallSubmit(Main)
    \/ SubmitSteps(Main)
    \/ Workers
    \/ Rendering

SpecRender == Init /\ [][NextRender]_vars

\* One thread calls Spinner.run_jobs, again and again, while the clock
\* advances.
NextRunJobs ==
    \/ \E jobs \in JobLists(MaxJobs - display.id_iter), w \in 1..MaxWorkers :
         RunJobs(Main, jobs, w)
    \/ RunJobsSubmit(Main)
    \/ RunJobsWaitAll(Main)
    \/ RunJobsExit(Main)
    \/ RunJobsReturn(Main)
    \/ SubmitSteps(Main)
    \/ WaitAllNext(Main)
    \/ ShutdownJoin(Main)
    \/ Workers
    \/ ClockTick

SpecRunJobs == Init /\ [][NextRunJobs]_vars

\* Two threads call register, update and release of the Display in any
\* order, with any handle.
NextDisplay ==
    \/ \E c \in Callers, line \in DisplayLines : DisplayRegister(c, line)
    \/ \E c \in Callers : DisplayRegisterLocked(c)
    \/ \E c \in Callers, h \in Handles, line \in DisplayLines : DisplayUpdate(c, h, line)
    \/ \E c \in Callers, h \in Handles : DisplayRelease(c, h)

SpecDisplay == Init /\ [][NextDisplay]_vars

\* One thread starts spinners of its own and stops them, again and again,
\* with any success flag and any elapsed argument.
NextSpinner ==
    \/ SpinnerStart(Main, LabelNames[1])
    \/ SpinnerStartAdd(Main)
    \/ \E h \in Handles, success \in BOOLEAN, elapsed \in ElapsedArgs :
         SpinnerStop(Main, h, success, elapsed)
    \/ SpinnerStopUpdate(Main)
    \/ SpinnerStopRelease(Main)

SpecSpinner == Init /\ [][NextSpinner]_vars

\* One thread starts spinners of its own and stops them, reading the elapsed
\* time from the clock, while the render thread animates them.
NextTick ==
    \/ \E text \in Labels : SpinnerStart(Main, text)
    \/ SpinnerStartAdd(Main)
    \/ \E h \in Handles, success \in BOOLEAN : SpinnerStop(Main, h, success, None)
    \/ SpinnerStopUpdate(Main)
    \/ SpinnerStopRelease(Main)
    \/ Rendering
    \/ ClockTick

SpecTick == Init /\ [][NextTick]_vars

\* Threads start spinners and call add and remove of the Controller in any
\* order while the render thread runs its loop.
NextController ==
    \/ SpinnerStart(Main, LabelNames[1])
    \/ SpinnerStartAdd(Main)
    \/ \E c \in Callers, sp \in Handles : ControllerAdd(c, sp)
    \/ \E c \in Callers, sp \in Handles : ControllerRemove(c, sp)
    \/ Rendering

SpecController == Init /\ [][NextController]_vars

\* The render thread is scheduled fairly.
SpecControllerFair == SpecController /\ WF_vars(Rendering)

\* The Pool and the render thread together: one thread submits jobs and
\* collects their results while the workers run the jobs and the render
\* thread animates their spinners.
NextAll ==
    \/ CallSubmit(Main)
    \/ CallWaitAll(Main)
    \/ CallResultFor(Main)
    \/ SubmitSteps(Main)
    \/ WaitAllNext(Main)
    \/ ResultForDone(Main)
    \/ Workers
    \/ Rendering

SpecAll == Init /\ [][NextAll]_vars

----------------------------------------------------------------------------
(* Properties. *)

\* The JobResult the documentation of run_jobs promises for a callable.
ExpectedResult(fn) ==
    IF fn.kind = "return"
    THEN [ok |-> TRUE, result |-> <<fn.value>>, error |-> <<>>]
    ELSE [ok |-> FALSE, result |-> <<>>,
          error |-> <<[type |-> fn.exc, message |-> fn.message]>>]

\* The callable of the job stored in the map at place i.
StoredFn(i) == job[pool.jobs[i].future].fn

\* m is the Pool's map, label by label, each with the JobResult its own
\* callable calls for.
MappingRight(m) ==
    /\ Len(m) = Len(pool.jobs)
    /\ \A i \in DOMAIN m :
         /\ m[i][1] = pool.jobs[i].label
         /\ m[i][2] = <<ExpectedResult(StoredFn(i))>>
    /\ \A i, k \in DOMAIN m : i # k => m[i][1] # m[k][1]

\* fn returns, or raises a failure that is an Exception.
Catchable(fn) == fn.kind = "return" \/ fn.exc \in ExceptionClasses

----------------------------------------------------------------------------
\* A complete Future holds what the job's own callable calls for: its
\* JobResult, or the failure that is no Exception.
OwnResult(h) ==
    IF Catchable(job[h].fn)
    THEN /\ job[h].future.exception = ""
         /\ job[h].future.result = <<ExpectedResult(job[h].fn)>>
    ELSE /\ job[h].future.exception = job[h].fn.exc
         /\ job[h].future.result = <<>>

C2_RaisedOnlyUncatchable ==
    \A c \in Callers :
        (caller[c].ret.op \in {"wait_all", "result_for"} /\ caller[c].ret.kind = "raise")
            => \/ /\ caller[c].ret.op = "result_for"
                  /\ caller[c].ret.value = <<"KeyError">>
                  /\ caller[c].ret.label \notin JobLabels(pool.jobs)
               \/ \E i \in DOMAIN pool.jobs :
                    /\ ~Catchable(StoredFn(i))
                    /\ caller[c].ret.value = <<StoredFn(i).exc>>
                    /\ caller[c].ret.op = "result_for" =>
                           pool.jobs[i].label = caller[c].ret.label

SubmitCalled(c) ==
    /\ caller[c].pc = "idle"
    /\ \/ caller'[c].pc = "submit_start"
       \/ caller'[c].pc = "idle" /\ caller'[c].ret.op = "submit" /\ caller'[c] # caller[c]

SubmitCalledLabel(c) ==
    IF caller'[c].pc = "submit_start" THEN caller'[c].label ELSE caller'[c].ret.label

\* C3: a submit called with a label that is already in the map fails with
\* the duplicate-label error (ValueError) in that very step, and the step
\* changes nothing of the Display, the Controller, the spinners, the jobs
\* and their futures, or the Pool.
C3_DuplicateRejected ==
    [][\A c \in Callers :
         (SubmitCalled(c) /\ SubmitCalledLabel(c) \in JobLabels(pool.jobs))
             => /\ caller'[c].pc = "idle"
                /\ caller'[c].ret.kind = "raise"
                /\ caller'[c].ret.value = <<"ValueError">>
                /\ UNCHANGED <<display, stdout, controller, spinner, job, pool>>]_vars

\* A duplicate submit has failed and the first job with that label is
\* still the one in the map, complete with its own result.
C3_Witness ==
    /\ caller[Main].ret.op = "submit" /\ caller[Main].ret.kind = "raise"
    /\ caller[Main].ret.value = <<"ValueError">>
    /\ \E i \in DOMAIN pool.jobs :
         /\ pool.jobs[i].label = caller[Main].ret.label
         /\ job[pool.jobs[i].future].future.done
         /\ OwnResult(pool.jobs[i].future)

\* C4, as claimed: of the submits made with one label at most one gets past
\* the label check, so no two spinners and worker tasks share a label.
C4_LabelsUnique ==
    \A h, k \in DOMAIN job : h # k => job[h].label # job[k].label

\* Every job in the map is complete.
AllStoredDone == \A i \in DOMAIN pool.jobs : job[pool.jobs[i].future].st = "done"

----------------------------------------------------------------------------
\* C6, its states: once the Future of a job is complete, the job's spinner
\* has its stop flag set, is not in the Controller's active set and has
\* given up its Display handle, and the JobResult's ok is the success the
\* runner passed to stop.
C6_StoppedWhenDone ==
    \A h \in DOMAIN job :
        job[h].future.done =>
            /\ spinner[h].stop
            /\ h \notin Range(controller.spinners)
            /\ spinner[h].display_id = None
            /\ job[h].future.exception = "" => job[h].future.result[1].ok = job[h].success
            /\ job[h].success = (job[h].fn.kind = "return")

\* C6, its steps: the step of stop that pushes the final line leaves the
\* success icon in the Display exactly when the job's callable returned.
C6_FinalLinePushed ==
    \A h \in DOMAIN job :
        (job[h].st = "stop_update" /\ job'[h].st = "stop_release")
            => /\ h \in DOMAIN display'.lines
               /\ display'.lines[h].icon =
                      IF job[h].fn.kind = "return" THEN "ok" ELSE "fail"

\* C6: the spinner's stop happens before the job's result becomes
\* available: stop pushes the final line with success equal to the result's
\* ok flag, and at every moment at which a job's future is complete its
\* spinner has been stopped, has left the Controller's active set and has
\* released its Display handle.
C6_StopBeforeResult == []C6_StoppedWhenDone /\ [][C6_FinalLinePushed]_vars

\* A job that failed is complete while the spinner of another job is still
\* being animated.
C6_Witness ==
    \E h, k \in DOMAIN job :
        /\ job[h].future.done /\ job[h].future.exception = ""
        /\ ~job[h].future.result[1].ok
        /\ k \in Range(controller.spinners) /\ render.pc = "update"

\* C7: when run_jobs has handed control back, by returning or by raising,
\* every worker task that was submitted has finished, its spinner has been
\* stopped and has released its handle, and the Pool it opened is shut down.
C7_ShutdownOnExit ==
    \A c \in Callers :
        (caller[c].ret.op = "run_jobs" /\ scope[c].phase = "none")
            => /\ \A h \in DOMAIN job :
                    /\ job[h].st = "done"
                    /\ spinner[h].stop /\ spinner[h].display_id = None
               /\ DOMAIN job # {} => pool.shutdown

\* run_jobs has raised the duplicate-label error of its second submit after
\* its first job had been submitted.
C7_Witness ==
    /\ caller[Main].ret.op = "run_jobs" /\ scope[Main].phase = "none"
    /\ caller[Main].ret.kind = "raise" /\ caller[Main].ret.value = <<"ValueError">>
    /\ pool.jobs # <<>>

\* C8: a submit called after shutdown fails: it raises, it never stores a
\* future in the map, and the runner it built is never handed to a worker,
\* so its callable is never invoked.
C8_LateSubmitRejected ==
    /\ \A c \in Callers :
         /\ (caller[c].ret.op = "submit" /\ caller[c].ret.late) => caller[c].ret.kind = "raise"
         /\ caller[c].late => caller[c].pc \in {"submit_start", "submit_add", "submit_exec"}
    /\ \A h \in DOMAIN job :
         job[h].late => /\ job[h].st = "new"
                        /\ \A i \in DOMAIN pool.jobs : pool.jobs[i].future # h

\* A submit called after shutdown got as far as the executor, which
\* rejected it.
C8_Witness ==
    /\ caller[Main].ret.op = "submit" /\ caller[Main].ret.late
    /\ caller[Main].ret.kind = "raise" /\ caller[Main].ret.value = <<"RuntimeError">>

\* C9, as claimed: once the Display holds a final line for a handle, the
\* line it holds for that handle never changes.
C9_FinalLineFrozen ==
    [][\A h \in DOMAIN display.lines \cap DOMAIN display'.lines :
         display.lines[h].icon \in {"ok", "fail"}
             => display'.lines[h] = display.lines[h]]_vars

\* C10, as claimed: a Display.update for a handle its spinner has released
\* changes no stored line and writes nothing.
C10_UpdateAfterReleaseIgnored ==
    [][(render.pc = "update" /\ render'.pc = "tick"
            /\ spinner[render.id].display_id = None)
         => (display' = display /\ stdout' = stdout)]_vars

----------------------------------------------------------------------------
\* C11, as claimed: a release of a handle that has a line takes the handle
\* out of the line mapping and of the order list and leaves the lines and
\* the order of every other handle as they were.
C11_ReleaseRemoves ==
    [][\A c \in Callers, h \in Handles :
         (DisplayRelease(c, h) /\ h \in DOMAIN display.lines)
             => /\ h \notin DOMAIN display'.lines
                /\ display'.order = SeqWithout(display.order, h)
                /\ \A k \in DOMAIN display.lines \ {h} :
                     k \in DOMAIN display'.lines /\ display'.lines[k] = display.lines[k]]_vars

\* C12: in every state the handles that have a stored line are the handles
\* of the order list, and the order list holds no handle twice.
C12_LinesMatchOrder ==
    /\ DOMAIN display.lines = Range(display.order)
    /\ \A i, k \in DOMAIN display.order : i # k => display.order[i] # display.order[k]

\* Two registers have interleaved, so that the later handle is on top, and
\* one of the two handles has been released since.
C12_Witness ==
    /\ display.order = <<1, 0>>
    /\ display.active_count = 1
    /\ \E c \in Callers : caller[c].ret.op = "release"

\* The Display has no active spinner and holds nothing of the last batch.
DisplayFresh ==
    display.lines = <<>> /\ display.order = <<>> /\ display.last_line_count = 0

\* C13: when the release of the last active spinner completes the Display
\* has no line, an empty order list and a last-written line count of 0; it
\* stays so while no spinner is active, and the first redraw of the next
\* batch moves the cursor up by zero lines.
C13_FreshBatch ==
    /\ [](display.active_count = 0 => DisplayFresh)
    /\ [][\A c \in Callers :
            /\ \A h \in Handles :
                 (DisplayRelease(c, h) /\ h \in DOMAIN display.lines
                    /\ display.active_count = 1) => (display'.active_count = 0 /\ DisplayFresh')
            /\ (DisplayRegisterLocked(c) /\ display.active_count = 0)
                 => (stdout'.up = 0 /\ Len(stdout'.lines) = 1)]_vars

\* The second batch has drawn its first line, after the only spinner of the
\* first batch had been released: the cursor did not move up.
C13_Witness ==
    /\ display.id_iter = 2 /\ display.order = <<1>> /\ display.active_count = 1
    /\ \A c \in Callers : caller[c].pc = "idle"
    /\ \E c \in Callers : caller[c].ret.op = "register" /\ caller[c].ret.value = <<1>>
    /\ stdout.up = 0

\* a is above b in the block.
Before(order, a, b) ==
    \E i, k \in DOMAIN order : i < k /\ order[i] = a /\ order[k] = b

\* C16: the Display keeps registration order: a register puts its handle
\* below every handle of the order list, two handles that stay in the order
\* list never change places, whatever is updated or released, and every
\* redraw writes the lines in the order of the order list.
C16_RegistrationOrder ==
    [][/\ \A c \in Callers :
            DisplayRegisterLocked(c) => display'.order = Append(display.order, caller[c].h)
       /\ \A a, b \in Range(display.order) \cap Range(display'.order) :
            Before(display.order, a, b) => Before(display'.order, a, b)
       /\ stdout' # stdout =>
            stdout'.lines = [i \in 1..Len(display'.order) |-> display'.lines[display'.order[i]]]
      ]_vars

\* Two handles are in the order list, one of them updated to a final line
\* and one of them released, and the last redraw wrote both lines.
C16_Witness ==
    /\ Len(display.order) = 2 /\ display.active_count = 1
    /\ caller[Main].ret.op = "update" /\ caller["other"].ret.op = "release"
    /\ Len(stdout.lines) = 2
    /\ stdout.lines[1].icon = "frame" /\ stdout.lines[2].icon = "ok"

----------------------------------------------------------------------------
\* A step of a stop call made after an earlier stop of the same spinner has
\* returned.
FurtherStopStep(c) ==
    \/ caller[c].pc = "idle" /\ caller'[c].pc = "stop_update" /\ caller'[c].late
    \/ caller[c].pc \in {"stop_update", "stop_release"} /\ caller[c].late
         /\ caller'[c] # caller[c]

\* C14: after a first stop of a spinner has returned, no step of a further
\* stop of that spinner, whatever its success and elapsed arguments, changes
\* the Display's lines, order list, active count or last-written line count,
\* the Controller's active set, or what is on the terminal.
C14_StopIdempotent ==
    [][\A c \in Callers :
         FurtherStopStep(c)
             => /\ display' = display
                /\ stdout' = stdout
                /\ controller'.spinners = controller.spinners]_vars

\* A spinner has been stopped a second time, with other arguments than the
\* first time, while another spinner is still active.
C14_Witness ==
    /\ caller[Main].pc = "idle" /\ caller[Main].ret.op = "stop" /\ caller[Main].ret.late
    /\ caller[Main].ret.value = <<0>>
    /\ display.active_count = 1 /\ Len(display.order) = 2
    /\ display.lines[0].icon = "ok" /\ display.lines[0].elapsed = FormatElapsed(59)
    /\ controller.spinners = <<1>>

\* The whole seconds an elapsed string stands for.
Seconds(e) ==
    LET N(p) == p[1] * 10 + p[2]
    IN  IF Len(e) = 3 THEN N(e[1]) * 3600 + N(e[2]) * 60 + N(e[3])
        ELSE N(e[1]) * 60 + N(e[2])

\* C15, as claimed: with a clock that never goes backwards, the elapsed
\* value the Display shows for a running spinner never decreases, and once
\* the Display shows the final line of a stopped spinner the elapsed value
\* it shows for that spinner never changes.
C15_ElapsedMonotoneThenFrozen ==
    [][\A h \in DOMAIN display.lines \cap DOMAIN display'.lines :
         /\ (display.lines[h].icon = "frame" /\ display'.lines[h].icon = "frame")
              => Seconds(display'.lines[h].elapsed) >= Seconds(display.lines[h].elapsed)
         /\ (spinner[h].stop /\ display.lines[h].icon \in {"ok", "fail"})
              => display'.lines[h].elapsed = display.lines[h].elapsed]_vars

\* Zero-padded to two digits.
TwoDigits(n) == <<n \div 10, n % 10>>

\* The elapsed string the formatting rule gives for s whole seconds.
ElapsedAsClaimed(s) ==
    IF s < 0 THEN <<TwoDigits(0), TwoDigits(0)>>
    ELSE IF s < 3600 THEN <<TwoDigits(s \div 60), TwoDigits(s % 60)>>
    ELSE <<TwoDigits(s \div 3600), TwoDigits((s % 3600) \div 60), TwoDigits(s % 60)>>

\* C20: the elapsed string of the final line that stop pushes for an elapsed
\* argument of s whole seconds is 00:00 for s < 0, MM:SS for 0 <= s < 3600
\* and HH:MM:SS for s >= 3600, with two digits a field; so 0 gives 00:00,
\* 59 gives 00:59, 60 gives 01:00 and 3661 gives 01:01:01.
C20_FormatElapsed ==
    /\ [][\A c \in Callers :
            (caller[c].pc = "stop_update" /\ caller'[c].pc = "stop_release"
                /\ caller[c].elapsed # None)
              => display'.lines[caller[c].h].elapsed = ElapsedAsClaimed(caller[c].elapsed)]_vars
    /\ [](/\ FormatElapsed(0) = << <<0, 0>>, <<0, 0>> >>
          /\ FormatElapsed(59) = << <<0, 0>>, <<5, 9>> >>
          /\ FormatElapsed(60) = << <<0, 1>>, <<0, 0>> >>
          /\ FormatElapsed(3661) = << <<0, 1>>, <<0, 1>>, <<0, 1>> >>)

\* stop has pushed the final line for 3661 seconds, which shows 01:01:01,
\* next to a line of a stop with a negative elapsed argument, which shows
\* 00:00.
C20_Witness ==
    /\ caller[Main].pc = "stop_release" /\ caller[Main].elapsed = 3661
    /\ caller[Main].h = 1
    /\ display.lines[1].elapsed = << <<0, 1>>, <<0, 1>>, <<0, 1>> >>
    /\ display.lines[0].icon = "fail"
    /\ display.lines[0].elapsed = << <<0, 0>>, <<0, 0>> >>

----------------------------------------------------------------------------
\* A step in which run_jobs is called by thread c and hands control back at
\* once, without opening a Pool.
RunJobsEndedAtOnce(c) ==
    /\ scope[c].phase = "none" /\ scope'[c].phase = "none"
    /\ caller[c].pc = "idle" /\ caller'[c].pc = "idle"
    /\ caller'[c] # caller[c] /\ caller'[c].ret.op = "run_jobs"

\* Some specification of the list is a dict without label or without fn.
LacksField(jobs) ==
    \E i \in DOMAIN jobs : jobs[i].dict /\ ~({"label", "fn"} \subseteq jobs[i].keys)

\* run_jobs raised ValueError naming a field that a specification of jobs
\* does not have.
NamesMissingField(ret, jobs) ==
    /\ ret.op = "run_jobs" /\ ret.kind = "raise"
    /\ Len(ret.value) = 2 /\ ret.value[1] = "ValueError"
    /\ ret.value[2] \in {"label", "fn"}
    /\ \E i \in DOMAIN jobs : jobs[i].dict /\ ret.value[2] \notin jobs[i].keys

\* C17: a run_jobs call on a list of dicts one of which lacks label or fn
\* fails at once with an error that names a missing field, wherever in the
\* list that dict is; and a run_jobs call that fails validation opens no
\* Pool, registers no spinner, starts no thread and creates and invokes no
\* runner.
C17_ValidatedFirst ==
    [][/\ (caller[Main].pc = "idle" /\ <<caller, scope>>' # <<caller, scope>>) =>
            \A jobs \in JobLists(MaxJobs - display.id_iter), w \in 1..MaxWorkers :
                (LacksField(jobs) /\ (\A i \in DOMAIN jobs : jobs[i].dict)
                    /\ RunJobs(Main, jobs, w))
                  => (RunJobsEndedAtOnce(Main) /\ NamesMissingField(caller'[Main].ret, jobs))
       /\ (RunJobsEndedAtOnce(Main) /\ caller'[Main].ret.kind = "raise")
            => UNCHANGED <<display, stdout, controller, render, spinner, job, pool>>]_vars

\* run_jobs, called after an earlier batch had run, has failed on a
\* specification without fn; nothing but the earlier batch has run.
C17_Witness ==
    /\ caller[Main].ret.op = "run_jobs" /\ caller[Main].ret.kind = "raise"
    /\ caller[Main].ret.value = <<"ValueError", "fn">>
    /\ scope[Main].phase = "none"
    /\ display.id_iter = 1 /\ DOMAIN job = {0} /\ job[0].st = "done"

\* C18: run_jobs on an empty list returns an empty mapping in one step that
\* creates no Pool and no executor, does not start the render thread and
\* leaves the Display, the Controller, the terminal, the spinners and the
\* jobs as they were.
C18_EmptyBatch ==
    [][\A w \in 1..MaxWorkers :
         RunJobs(Main, <<>>, w)
             => /\ RunJobsEndedAtOnce(Main)
                /\ caller'[Main].ret.kind = "return" /\ caller'[Main].ret.value = <<>>
                /\ UNCHANGED <<display, stdout, controller, render, spinner, job, pool>>]_vars

\* run_jobs has returned the empty mapping and the render thread has never
\* been started.
C18_Witness ==
    /\ caller[Main].ret.op = "run_jobs" /\ caller[Main].ret.kind = "return"
    /\ caller[Main].ret.value = <<>>
    /\ scope[Main].phase = "none"
    /\ ~controller.thread /\ display.id_iter = 0 /\ DOMAIN job = {}

----------------------------------------------------------------------------
\* A step in which thread c calls result_for: the lookup finds a future, or
\* the call fails there.
ResultForCalled(c) ==
    /\ caller[c].pc = "idle"
    /\ \/ caller'[c].pc = "result_for"
       \/ caller'[c].pc = "idle" /\ caller'[c].ret.op = "result_for" /\ caller'[c] # caller[c]

ResultForCalledLabel(c) ==
    IF caller'[c].pc = "result_for" THEN caller'[c].label ELSE caller'[c].ret.label

\* The call fails with the not-found error (KeyError) in the step of the
\* lookup exactly when no submit of the label has completed, that is, when
\* the label is not in the map, and the step leaves the Pool as it was.
ResultForLookup ==
    \A c \in Callers :
        ResultForCalled(c)
            => /\ pool' = pool /\ job' = job
               /\ (caller'[c].pc = "idle" /\ caller'[c].ret.kind = "raise"
                      /\ caller'[c].ret.value = <<"KeyError">>)
                    <=> ResultForCalledLabel(c) \notin JobLabels(pool.jobs)

\* What wait_all reports for a label: the result of the future in the map.
WaitAllReports(label) == job[JobsGet(pool.jobs, label)].future.result

ResultForOutcome ==
    \A c \in Callers :
        caller[c].ret.op = "result_for" =>
            IF caller[c].ret.label \notin JobLabels(pool.jobs)
            THEN caller[c].ret.kind = "raise" /\ caller[c].ret.value = <<"KeyError">>
            ELSE LET h == JobsGet(pool.jobs, caller[c].ret.label)
                 IN  /\ job[h].future.done
                     /\ job[h].label = caller[c].ret.label
                     /\ IF Catchable(job[h].fn)
                        THEN /\ caller[c].ret.kind = "return"
                             /\ caller[c].ret.value = WaitAllReports(caller[c].ret.label)
                             /\ caller[c].ret.value = <<ExpectedResult(job[h].fn)>>
                        ELSE /\ caller[c].ret.kind = "raise"
                             /\ caller[c].ret.value = <<job[h].fn.exc>>

----------------------------------------------------------------------------
\* The render loop is at spinner sp of its snapshot: it calls _render_tick.
TickOf(sp) ==
    render.pc = "tick" /\ render.spinners # <<>> /\ Head(render.spinners) = sp

\* C21: under fair scheduling of the render thread, whatever add and remove
\* calls interleave with its snapshot, wait and clear steps, a spinner in the
\* active set is ticked again and again for as long as it is not removed,
\* and the render thread does not stay blocked on the wake signal while the
\* active set is non-empty.
C21_NoLostWakeup ==
    /\ \A sp \in Handles :
         (sp \in Range(controller.spinners))
             ~> (TickOf(sp) \/ sp \notin Range(controller.spinners))
    /\ (render.pc = "wait" /\ controller.spinners # <<>>)
         ~> (render.pc # "wait" \/ controller.spinners = <<>>)

\* An add has come in between the return of _wake.wait() and _wake.clear():
\* the signal it set is about to be cleared.
C21_Witness ==
    /\ render.pc = "clear" /\ controller.wake
    /\ controller.spinners # <<>>

\* The render thread is blocked in _wake.wait().
Parked == render.pc = "wait" /\ ~controller.wake

\* C22, as claimed: once the active set is empty the render thread comes to
\* be blocked on the wake signal unless a spinner is added, and once blocked
\* it stays blocked until the next add.
C22_Original ==
    /\ (controller.thread /\ controller.spinners = <<>>)
         ~> (Parked \/ controller.spinners # <<>>)
    /\ [][Parked => (Parked' \/ controller'.spinners # <<>>)]_vars

\* A step of an add or remove call that changes the Controller.
ControllerCall == controller' # controller /\ render' = render

\* C22, amended: when the active set is empty and stays empty and no add or
\* remove call is made any more, the render thread comes to be blocked on
\* the wake signal and stays blocked; it finds the empty set without
\* ticking; and it is unblocked only by an add or a remove call, which sets
\* the wake signal (a remove that finds the set empty does so too).
C22_ParksWhenQuiet ==
    /\ (<>[][~ControllerCall]_vars /\ <>[](controller.thread /\ controller.spinners = <<>>))
         => <>[]Parked
    /\ [][/\ (Parked /\ ~Parked') => (ControllerCall /\ controller'.wake)
          /\ (render.pc = "snapshot" /\ controller.spinners = <<>> /\ render' # render)
               => render'.pc = "wait"]_vars

\* The render thread is blocked with an empty active set after it has
\* ticked: two spinners have been added and removed.
C22_Witness ==
    /\ Parked /\ controller.spinners = <<>>
    /\ caller[Main].pc = "idle"
    /\ DOMAIN spinner = {0, 1}
    /\ display.last_line_count = 2

\* C23: the Controller has a single render thread.  No render thread is
\* alive, and the loop has not moved, before the first add; a thread is
\* started only by a step that adds a spinner; and whatever the interleaving
\* of the add calls of several threads, no more than one thread is ever
\* started, the one that is alive.
C23_SingleThread ==
    /\ [](/\ controller.started <= 1
          /\ controller.thread <=> controller.started = 1
          /\ ~controller.thread =>
               /\ controller.spinners = <<>>
               /\ render = [pc |-> "snapshot", spinners |-> <<>>, id |-> None,
                            line |-> NoLine])
    /\ [][(~controller.thread /\ controller'.thread)
            => controller'.spinners # controller.spinners]_vars

\* Two spinners have been added, each by its own add call, and the one
\* thread is alive.
C23_Witness ==
    /\ Len(controller.spinners) = 2
    /\ controller.thread /\ controller.started = 1

\* C24: the render thread ticks from its local snapshot and outside the
\* Controller's lock.  While a tick or the Display redraw inside it is in
\* progress the Controller's lock is free, so that an add or a remove call
\* of any thread can run to its end at once; no step of the render thread
\* changes the active set; and the snapshot changes only when it is taken or
\* when the spinner just ticked is dropped from its head.
C24_TicksOutsideLock ==
    /\ [](render.pc \in {"tick", "update"} =>
            /\ LockFree("controller")
            /\ \A c \in Callers, sp \in DOMAIN spinner :
                 caller[c].pc = "idle" =>
                     /\ ENABLED ControllerAdd(c, sp)
                     /\ ENABLED ControllerRemove(c, sp))
    /\ [][/\ render' # render => controller'.spinners = controller.spinners
          /\ render'.spinners # render.spinners =>
               \/ render.pc = "snapshot"
               \/ render'.spinners = Tail(render.spinners)]_vars

\* The Display redraw of a tick is pending for a spinner that a remove call
\* has taken out of the active set since the snapshot.
C24_Witness ==
    /\ render.pc = "update"
    /\ Head(render.spinners) \notin Range(controller.spinners)

\* No thread holds a lock at the position it stands at.
NoLockHeld ==
    /\ Holds(render.pc) = {}
    /\ \A c \in DOMAIN caller : Holds(caller[c].pc) = {}
    /\ \A h \in DOMAIN job : Holds(job[h].st) = {}

\* The step changes state that lock l guards: the Display's lines and the
\* terminal, the Controller's active set and thread, the Pool's job map.
LockedChange(l) ==
    CASE l = "display" -> <<display, stdout>>' # <<display, stdout>>
      [] l = "controller" ->
            <<controller.spinners, controller.thread>>' # <<controller.spinners, controller.thread>>
      [] l = "pool" -> pool'.jobs # pool.jobs

\* A call or a job is under way.
Unfinished ==
    \/ \E c \in DOMAIN caller : caller[c].pc # "idle"
    \/ \E h \in DOMAIN job : job[h].st \notin {"new", "done"}

\* A step of a call under way or of a worker.
Progress ==
    \/ SubmitSteps(Main)
    \/ WaitAllNext(Main)
    \/ ResultForDone(Main)
    \/ Workers

\* C26: lock discipline.  No thread holds a lock between two of its steps,
\* so none holds one while it waits for a future or for the wake signal;
\* no step changes state guarded by two of the three locks; and no
\* interleaving reaches a deadlock: while a call or a job is
\* under way one of them can take a step, the render thread can take a step
\* unless it waits for the wake signal, and it waits with the signal clear
\* only while the active set is empty.
C26_LockDiscipline ==
    /\ [](/\ NoLockHeld
          /\ Unfinished => ENABLED Progress
          /\ (controller.thread /\ render.pc # "wait") => ENABLED Rendering
          /\ (render.pc = "wait" /\ controller.spinners # <<>>) => controller.wake)
    /\ [][Cardinality({l \in Locks : LockedChange(l)}) <= 1]_vars

\* A thread waits in wait_all for a job whose worker is about to push the
\* final line while the render thread is about to redraw: the worker and
\* the render thread both want the Display's lock.
C26_Witness ==
    /\ caller[Main].pc = "wait_all"
    /\ render.pc = "update"
    /\ \E h \in DOMAIN job : job[h].st = "stop_update"

\* The step is a redraw: _render_locked has written and flushed.
Redraw == stdout'.flush # stdout.flush

\* C25, as claimed: the last-written line count is the length of the order
\* list, and every redraw moves the cursor up by the number of lines the
\* redraw before it wrote.
C25_Original ==
    /\ [](display.last_line_count = Len(display.order))
    /\ [][Redraw => stdout'.up = Len(stdout.lines)]_vars

\* C25, amended: the last-written line count is the length of the order
\* list; every redraw moves the cursor up by that count, which is the number
\* of lines the redraw before it wrote unless a release has ended the batch
\* since, in which case it is 0 and the cursor stays where it is; and then
\* the redraw writes one line per handle of the order list, in order.
C25_RedrawCursor ==
    /\ [](display.last_line_count = Len(display.order))
    /\ [][Redraw =>
            /\ stdout'.up = display.last_line_count
            /\ display.active_count > 0 => stdout'.up = Len(stdout.lines)
            /\ display.active_count = 0 => stdout'.up = 0
            /\ Len(stdout'.lines) = Len(display'.order)
            /\ \A i \in DOMAIN display'.order :
                 stdout'.lines[i] = display'.lines[display'.order[i]]]_vars

\* The redraw that opened the second batch wrote its one line without
\* moving the cursor, although the redraw before it had written a line.
C25_Witness ==
    /\ display.id_iter = 2 /\ display.order = <<1>>
    /\ display.last_line_count = 1
    /\ stdout.up = 0 /\ stdout.lines = <<display.lines[1]>>

\* C27, as claimed: a release of a registered handle that the same thread
\* has just released changes nothing in the Display: the active count stays
\* and the lines of the spinners still active stay.
C27_SecondReleaseNoEffect ==
    [][\A c \in Callers, h \in Handles :
         (/\ caller[c].pc = "idle"
          /\ caller[c].ret.op = "release" /\ caller[c].ret.value = <<h>>
          /\ ~caller[c].ret.late
          /\ DisplayRelease(c, h))
             => display' = display]_vars

\* C28, as claimed: when a submit call has failed, every spinner the Pool
\* has started belongs to a job that the executor accepted, whose runner
\* stops it.
C28_FailedSubmitNoSpinner ==
    \A c \in Callers :
        (/\ caller[c].pc = "idle"
         /\ caller[c].ret.op = "submit" /\ caller[c].ret.kind = "raise")
            => \A h \in DOMAIN job : job[h].st # "new"

====
